---- MODULE Spec2Model ----
(***************************************************************************)
(* A model of the loggerv-style logger of src/src/lib.rs: the Logger       *)
(* builder and its setters, Logger::init (threshold resolution, filter     *)
(* build, sink installation), and InnerLogger::log (filter, format, route, *)
(* write).                                                                 *)
(*                                                                         *)
(* Text is modelled as sequences of one-character strings, so that         *)
(* concatenation, prefix matching and the search for an escape character   *)
(* are computed and not assumed.                                           *)
(*                                                                         *)
(* The library calls of lib.rs are modelled by what the libraries do:      *)
(*   env_logger 0.5 filter::Builder / Filter (parse, filter, build,        *)
(*   enabled, matches, filter), log 0.4 (set_max_level, set_boxed_logger,  *)
(*   the log! macro's gate), ansi_term (Colour::paint), atty::is.          *)
(*                                                                         *)
(* Three specifications: Spec, one thread that builds, initialises and     *)
(* logs; SpecSetters, the builder alone under chains of setter calls;      *)
(* SpecThreads, threads that call Logger::init side by side.               *)
(***************************************************************************)
EXTENDS Naturals, Sequences, FiniteSets, TLC

(***************************************************************************)
(* Bounds of the exploration.                                              *)
(***************************************************************************)
\* setter calls made in one process, over all its builders
MaxSetterCalls == 1
\* calls of Logger::init made in one process
MaxInits == 2
\* setter calls chained on one Logger, where the builder is taken alone
MaxChain == 2
\* threads that call Logger::init side by side
NumThreads == 2

(***************************************************************************)
(* Option values: None is the empty tuple, Some(x) the one-element tuple.  *)
(***************************************************************************)
None == <<>>
Some(x) == <<x>>
IsSome(o) == o # <<>>
Unwrap(o) == o[1]

(***************************************************************************)
(* Severities, with the numeric values of log::Level / log::LevelFilter    *)
(* (Off = 0, Error = 1 .. Trace = 5).  The rank the specification speaks   *)
(* of (Error = 0 .. Trace = 4) is the value minus one.                     *)
(***************************************************************************)
Off == 0
Error == 1
Warn == 2
Info == 3
Debug == 4
Trace == 5
Levels == Error..Trace
LevelFilters == Off..Trace
Rank(l) == l - 1

\* log::Level::to_level_filter: the filter of the same numeric value
ToLevelFilter(l) == l

(***************************************************************************)
(* Text helpers.                                                           *)
(***************************************************************************)
RECURSIVE Concat(_)
Concat(ss) == IF ss = <<>> THEN <<>> ELSE Head(ss) \o Concat(Tail(ss))

\* str::starts_with
StartsWith(s, p) == Len(p) <= Len(s) /\ SubSeq(s, 1, Len(p)) = p

\* s contains p as a contiguous substring
Contains(s, p) ==
    \E i \in 1..(Len(s) + 1) : i + Len(p) - 1 <= Len(s) /\ SubSeq(s, i, i + Len(p) - 1) = p

\* str::split(c): the pieces of s between the occurrences of the character c
RECURSIVE SplitFrom(_, _, _)
SplitFrom(s, c, cur) ==
    IF s = <<>> THEN <<cur>>
    ELSE IF Head(s) = c THEN <<cur>> \o SplitFrom(Tail(s), c, <<>>)
    ELSE SplitFrom(Tail(s), c, Append(cur, Head(s)))
Split(s, c) == SplitFrom(s, c, <<>>)

\* str::trim for the one whitespace character of the alphabet
RECURSIVE TrimStart(_)
TrimStart(s) == IF s # <<>> /\ Head(s) = " " THEN TrimStart(Tail(s)) ELSE s
RECURSIVE TrimEnd(_)
TrimEnd(s) == IF s # <<>> /\ s[Len(s)] = " " THEN TrimEnd(SubSeq(s, 1, Len(s) - 1)) ELSE s
Trim(s) == TrimEnd(TrimStart(s))

Digit(d) == <<"0", "1", "2", "3", "4", "5", "6", "7", "8", "9">>[d + 1]
\* the decimal rendering of an unsigned integer ({} of format!)
RECURSIVE Decimal(_)
Decimal(n) == IF n < 10 THEN <<Digit(n)>> ELSE Decimal(n \div 10) \o <<Digit(n % 10)>>

\* u8::to_ascii_lowercase on the letters of the alphabet
ToAsciiLower(c) ==
    CASE c = "A" -> "a" [] c = "B" -> "b" [] c = "D" -> "d" [] c = "E" -> "e"
      [] c = "F" -> "f" [] c = "G" -> "g" [] c = "I" -> "i" [] c = "N" -> "n"
      [] c = "O" -> "o" [] c = "R" -> "r" [] c = "T" -> "t" [] c = "U" -> "u"
      [] c = "W" -> "w" [] c = "C" -> "c"
      [] OTHER -> c
EqIgnoreAsciiCase(s, t) ==
    Len(s) = Len(t) /\ \A i \in 1..Len(s) : ToAsciiLower(s[i]) = ToAsciiLower(t[i])

\* log's LOG_LEVEL_NAMES, indexed by numeric value + 1; also Level's Display
LevelName(l) ==
    CASE l = Off -> <<"O", "F", "F">>
      [] l = Error -> <<"E", "R", "R", "O", "R">>
      [] l = Warn -> <<"W", "A", "R", "N">>
      [] l = Info -> <<"I", "N", "F", "O">>
      [] l = Debug -> <<"D", "E", "B", "U", "G">>
      [] l = Trace -> <<"T", "R", "A", "C", "E">>

\* <LevelFilter as FromStr>::from_str: the level whose name equals s, case
\* ignored; None when s names no level
ParseLevelFilter(s) ==
    IF \E l \in LevelFilters : EqIgnoreAsciiCase(LevelName(l), s)
    THEN Some(CHOOSE l \in LevelFilters : EqIgnoreAsciiCase(LevelName(l), s))
    ELSE None

(***************************************************************************)
(* env_logger::filter as lib.rs uses it.  A Directive is a record          *)
(* [name, level]: name an Option of a module path prefix, level a          *)
(* LevelFilter.  A Builder and a built Filter are records [directives,     *)
(* filter], filter being the Option of a message pattern (the text after   *)
(* a '/').                                                                 *)
(***************************************************************************)
Directive(name, level) == [name |-> name, level |-> level]

\* one token of parse_spec: the Option of the directive it yields
ParseToken(s) ==
    LET parts == Split(s, "=")
        part0 == parts[1]
        part1 == Trim(parts[2])
    IN  IF Len(parts) = 1
        THEN IF IsSome(ParseLevelFilter(part0))
             THEN Some(Directive(None, Unwrap(ParseLevelFilter(part0))))
             ELSE Some(Directive(Some(part0), Trace))
        ELSE IF Len(parts) = 2
        THEN IF part1 = <<>>
             THEN Some(Directive(Some(part0), Trace))
             ELSE IF IsSome(ParseLevelFilter(part1))
             THEN Some(Directive(Some(part0), Unwrap(ParseLevelFilter(part1))))
             ELSE None
        ELSE None

RECURSIVE ParseTokens(_)
ParseTokens(toks) ==
    IF toks = <<>> THEN <<>>
    ELSE IF Head(toks) = <<>> THEN ParseTokens(Tail(toks))
    ELSE ParseToken(Head(toks)) \o ParseTokens(Tail(toks))

\* env_logger's parse_spec: "mods/pattern", mods a comma-separated list of
\* tokens; a token that is no directive is skipped, a spec with more than
\* one '/' yields nothing
ParseSpec(spec) ==
    LET parts == Split(spec, "/")
    IN  IF Len(parts) > 2 THEN [dirs |-> <<>>, filter |-> None]
        ELSE [dirs |-> ParseTokens(Split(parts[1], ",")),
              filter |-> IF Len(parts) = 2 THEN Some(parts[2]) ELSE None]

\* filter::Builder::new
BuilderNew == [directives |-> <<>>, filter |-> None]

\* filter::Builder::parse: the pattern is replaced, the directives appended
BuilderParse(b, spec) ==
    [directives |-> b.directives \o ParseSpec(spec).dirs,
     filter |-> ParseSpec(spec).filter]

\* filter::Builder::filter(module, level): one directive appended
BuilderFilter(b, module, level) ==
    [b EXCEPT !.directives = Append(@, Directive(module, level))]

\* filter::Builder::from_env: a new builder, the variable parsed if it is set
BuilderFromEnv(envValue) ==
    IF IsSome(envValue) THEN BuilderParse(BuilderNew, Unwrap(envValue)) ELSE BuilderNew

NameLen(d) == IF IsSome(d.name) THEN Len(Unwrap(d.name)) ELSE 0

\* the stable sort of build: d goes behind every directive whose name is no
\* longer than its own
RECURSIVE InsertByLen(_, _)
InsertByLen(sorted, d) ==
    IF sorted = <<>> THEN <<d>>
    ELSE IF NameLen(sorted[Len(sorted)]) <= NameLen(d) THEN Append(sorted, d)
    ELSE Append(InsertByLen(SubSeq(sorted, 1, Len(sorted) - 1), d), sorted[Len(sorted)])
RECURSIVE SortByLen(_)
SortByLen(ds) ==
    IF ds = <<>> THEN <<>>
    ELSE InsertByLen(SortByLen(SubSeq(ds, 1, Len(ds) - 1)), ds[Len(ds)])

\* filter::Builder::build, the Filter it returns: the directives sorted by
\* the length of their names, or the one default directive (all modules at
\* Error) when the builder holds none
BuiltFilter(b) ==
    [directives |-> IF b.directives = <<>> THEN <<Directive(None, Error)>>
                    ELSE SortByLen(b.directives),
     filter |-> b.filter]

\* filter::Builder::build, the builder it leaves behind: build moves the
\* directives and the pattern out of the builder (mem::replace with an
\* empty Vec and None); the builder itself stays usable
BuilderAfterBuild(b) == BuilderNew

\* Filter::filter: the most verbose level of all directives
RECURSIVE MaxLevelOf(_)
MaxLevelOf(ds) ==
    IF ds = <<>> THEN Off
    ELSE LET m == MaxLevelOf(Tail(ds))
         IN  IF Head(ds).level > m THEN Head(ds).level ELSE m
FilterFilter(f) == MaxLevelOf(f.directives)

DirectiveMatches(d, target) ==
    ~IsSome(d.name) \/ StartsWith(target, Unwrap(d.name))

\* the search of Filter::enabled: the directives from the last to the first,
\* the first whose name is a prefix of the target decides; Off if none does
RECURSIVE ThresholdFrom(_, _, _)
ThresholdFrom(ds, i, target) ==
    IF i = 0 THEN Off
    ELSE IF DirectiveMatches(ds[i], target) THEN ds[i].level
    ELSE ThresholdFrom(ds, i - 1, target)
EffectiveThreshold(f, target) == ThresholdFrom(f.directives, Len(f.directives), target)

\* Filter::enabled
FilterEnabled(f, level, target) == level <= EffectiveThreshold(f, target)

\* Filter::matches: enabled, and the message matches the pattern if any
FilterMatches(f, rec) ==
    /\ FilterEnabled(f, rec.level, rec.target)
    /\ (IsSome(f.filter) => Contains(rec.args, Unwrap(f.filter)))

(***************************************************************************)
(* u64 values: [top |-> FALSE, n |-> k] is k, [top |-> TRUE, n |-> k] is   *)
(* 2^64 - 1 - k.  Only small k are used, so both ends of the range are     *)
(* exact.                                                                  *)
(***************************************************************************)
Small(k) == [top |-> FALSE, n |-> k]
FromMax(k) == [top |-> TRUE, n |-> k]
\* v + off leaves the range of u64 (off is small)
AddOverflows(v, off) == v.top /\ off > v.n
\* v + off modulo 2^64
WrappingAdd(v, off) ==
    IF ~v.top THEN Small(v.n + off)
    ELSE IF off > v.n THEN Small(off - v.n - 1)
    ELSE FromMax(v.n - off)

(***************************************************************************)
(* Inputs.                                                                 *)
(***************************************************************************)
Path_abc == <<"a", ":", ":", "b", ":", ":", "c">>
Path_ab == <<"a", ":", ":", "b">>
Path_ax == <<"a", ":", ":", "x">>
Path_a == <<"a">>
Path_z == <<"z">>
\* the targets the filter is asked about
Targets == {Path_abc, Path_ab, Path_ax, Path_a, Path_z, <<"a", "b">>, <<>>}

Spec_warn == <<"w", "a", "r", "n">>
Spec_off == <<"o", "f", "f">>
Spec_info == <<"i", "n", "f", "o">>
\* "a=warn,a::b=trace"
Spec_a_ab == <<"a", "=", "w", "a", "r", "n", ",", "a", ":", ":", "b", "=", "t", "r", "a", "c", "e">>
\* "a=bogus,z=DEBUG/hi": a token that names no level, an upper-case level
\* and a message pattern
Spec_bogus_z == <<"a", "=", "b", "o", "g", "u", "s", ",", "z", "=", "D", "E", "B", "U", "G", "/", "h", "i">>

\* the values of RUST_LOG: not set, "warn", "off"
EnvValues == {None, Some(Spec_warn), Some(Spec_off)}
\* the arguments of Logger::filter
FilterSpecs == {Spec_a_ab, Spec_info, Spec_bogus_z}
\* the arguments of Logger::verbosity
Verbosities == {Small(0), Small(1), Small(3), Small(99), FromMax(0)}
\* the arguments of Logger::separator
Sep_default == <<":", " ">>
Sep_eq == <<" ", "=", " ">>
Separators == {Sep_eq}

Stderr == "Stderr"
Stdout == "Stdout"
Outputs == {Stderr, Stdout}

\* ansi_term::Colour::Fixed(n), by its number
DEFAULT_DEBUG_COLOR == 7
DEFAULT_ERROR_COLOR == 9
DEFAULT_INFO_COLOR == 10
DEFAULT_TRACE_COLOR == 8
DEFAULT_WARN_COLOR == 11
\* a colour that is no level's default
Colours == {13}

DEFAULT_COLORS == TRUE
DEFAULT_INCLUDE_LEVEL == FALSE
DEFAULT_INCLUDE_LINE_NUMBERS == FALSE
DEFAULT_INCLUDE_MODULE_PATH == TRUE
DEFAULT_OFFSET == 1
DEFAULT_SEPARATOR == Sep_default

\* the records the facade hands to the sink: with a module path (its target)
\* and a line number, with a module path only, with neither
Msg_hi == <<"h", "i">>
Origins == {[module_path |-> Some(Path_abc), line |-> Some(12)],
            [module_path |-> Some(Path_abc), line |-> None],
            [module_path |-> None, line |-> None]}
Records ==
    { [level |-> l,
       target |-> IF IsSome(o.module_path) THEN Unwrap(o.module_path) ELSE <<>>,
       module_path |-> o.module_path, line |-> o.line, args |-> Msg_hi] :
        l \in Levels, o \in Origins }

(***************************************************************************)
(* State.                                                                  *)
(***************************************************************************)
VARIABLES
    env,        \* the value of RUST_LOG in the process environment
    logger,     \* the Logger under construction (an Option): the builder
    explicit,   \* history: the argument of the builder's last max_level call
    calls,      \* setter calls made so far
    results,    \* the results of the calls of Logger::init, in order
    installed,  \* log's global logger (an Option of the InnerLogger)
    maxLevel,   \* log's global maximum level (log::max_level())
    lastLog,    \* what the step just taken logged, if it was a call of the facade
    crashed,    \* the process panicked
    threads     \* the threads that call Logger::init side by side: what each
                \* holds and where it stands (none where one thread does all)

vars == <<env, logger, explicit, calls, results, installed, maxLevel, lastLog, crashed,
          threads>>

(***************************************************************************)
(* The builder: Logger::new and the setters, as functions of the Logger    *)
(* they consume.  tty: both stdout and stderr are terminals (atty::is).    *)
(***************************************************************************)
Logger_new(envValue, tty) ==
    [builder |-> BuilderFromEnv(envValue),
     colors |-> DEFAULT_COLORS /\ tty,
     include_level |-> DEFAULT_INCLUDE_LEVEL,
     include_line_numbers |-> DEFAULT_INCLUDE_LINE_NUMBERS,
     include_module_path |-> DEFAULT_INCLUDE_MODULE_PATH,
     separator |-> DEFAULT_SEPARATOR,
     verbosity |-> None,
     level |-> [l \in Levels |->
        [output |-> IF l \in {Error, Warn} THEN Stderr ELSE Stdout,
         color |-> CASE l = Error -> DEFAULT_ERROR_COLOR
                     [] l = Warn -> DEFAULT_WARN_COLOR
                     [] l = Info -> DEFAULT_INFO_COLOR
                     [] l = Debug -> DEFAULT_DEBUG_COLOR
                     [] l = Trace -> DEFAULT_TRACE_COLOR]]]

Logger_color(lg, l, c) == [lg EXCEPT !.level[l].color = c]
Logger_separator(lg, s) == [lg EXCEPT !.separator = s]
Logger_colors(lg, c, tty) == [lg EXCEPT !.colors = c /\ tty]
Logger_no_colors(lg) == [lg EXCEPT !.colors = FALSE]
Logger_line_numbers(lg, i) == [lg EXCEPT !.include_line_numbers = i]
Logger_level(lg, i) == [lg EXCEPT !.include_level = i]
\* a variant of Logger_max_level: the verbosity is left as it was
Logger_max_level_only(lg, l) ==
    [lg EXCEPT !.builder = BuilderFilter(@, None, ToLevelFilter(l))]

Logger_max_level(lg, l) ==
    [lg EXCEPT !.builder = BuilderFilter(@, None, ToLevelFilter(l)),
               !.verbosity = None]
Logger_module_path(lg, i) == [lg EXCEPT !.include_module_path = i]
Logger_no_module_path(lg) == [lg EXCEPT !.include_module_path = FALSE]
Logger_output(lg, l, o) == [lg EXCEPT !.level[l].output = o]
Logger_verbosity(lg, v) == [lg EXCEPT !.verbosity = Some(v)]
Logger_filter(lg, directives) == [lg EXCEPT !.builder = BuilderParse(@, directives)]

Init ==
    /\ env \in EnvValues
    /\ logger = None
    /\ explicit = None
    /\ calls = 0
    /\ results = <<>>
    /\ installed = None
    /\ maxLevel = Off
    /\ lastLog = None
    /\ crashed = FALSE
    /\ threads = <<>>

Building == ~crashed /\ IsSome(logger)
CanSet == Building /\ calls < MaxSetterCalls
\* a setter call that returns lg
Set(lg) ==
    /\ logger' = Some(lg)
    /\ calls' = calls + 1
    /\ lastLog' = None
    /\ UNCHANGED <<env, results, installed, maxLevel, crashed, threads>>

New ==
    /\ ~crashed
    /\ logger = None
    /\ Len(results) < MaxInits
    /\ \E tty \in BOOLEAN : logger' = Some(Logger_new(env, tty))
    /\ explicit' = None
    /\ lastLog' = None
    /\ UNCHANGED <<env, calls, results, installed, maxLevel, crashed, threads>>

Color ==
    /\ CanSet
    /\ \E l \in Levels, c \in Colours : Set(Logger_color(Unwrap(logger), l, c))
    /\ UNCHANGED explicit

Separator ==
    /\ CanSet
    /\ \E s \in Separators : Set(Logger_separator(Unwrap(logger), s))
    /\ UNCHANGED explicit

Colors ==
    /\ CanSet
    /\ \E c \in BOOLEAN, tty \in BOOLEAN : Set(Logger_colors(Unwrap(logger), c, tty))
    /\ UNCHANGED explicit

NoColors ==
    /\ CanSet
    /\ Set(Logger_no_colors(Unwrap(logger)))
    /\ UNCHANGED explicit

LineNumbers ==
    /\ CanSet
    /\ \E i \in BOOLEAN : Set(Logger_line_numbers(Unwrap(logger), i))
    /\ UNCHANGED explicit

IncludeLevel ==
    /\ CanSet
    /\ \E i \in BOOLEAN : Set(Logger_level(Unwrap(logger), i))
    /\ UNCHANGED explicit

ExplicitMaxLevel ==
    /\ CanSet
    /\ \E l \in Levels :
        /\ Set(Logger_max_level(Unwrap(logger), l))
        /\ explicit' = Some(l)

ModulePath ==
    /\ CanSet
    /\ \E i \in BOOLEAN : Set(Logger_module_path(Unwrap(logger), i))
    /\ UNCHANGED explicit

NoModulePath ==
    /\ CanSet
    /\ Set(Logger_no_module_path(Unwrap(logger)))
    /\ UNCHANGED explicit

Output ==
    /\ CanSet
    /\ \E l \in Levels, o \in Outputs : Set(Logger_output(Unwrap(logger), l, o))
    /\ UNCHANGED explicit

Verbosity ==
    /\ CanSet
    /\ \E v \in Verbosities : Set(Logger_verbosity(Unwrap(logger), v))
    /\ UNCHANGED explicit

Filter ==
    /\ CanSet
    /\ \E d \in FilterSpecs : Set(Logger_filter(Unwrap(logger), d))
    /\ UNCHANGED explicit

(***************************************************************************)
(* Logger::init.                                                           *)
(***************************************************************************)
\* a variant of InitSeparator: the configured separator is kept as it is
InitSeparatorKept(lg) == lg.separator

\* the separator the sink uses: empty when the tag is always empty
InitSeparator(lg) ==
    IF ~lg.include_level /\ ~lg.include_line_numbers /\ ~lg.include_module_path
    THEN <<>>
    ELSE lg.separator

\* the temporary filter, built to read the base level
TemporaryFilter(lg) == BuiltFilter(lg.builder)

Offset(levelFilter) ==
    CASE levelFilter = Off -> DEFAULT_OFFSET
      [] levelFilter = Error -> 0
      [] levelFilter = Warn -> 1
      [] levelFilter = Info -> 2
      [] levelFilter = Debug -> 3
      [] levelFilter = Trace -> 4

\* the match on v + offset
VerbosityLevel(sum) ==
    IF sum.top THEN Trace
    ELSE CASE sum.n = 0 -> Error
           [] sum.n = 1 -> Warn
           [] sum.n = 2 -> Info
           [] sum.n = 3 -> Debug
           [] OTHER -> Trace

\* the builder after the temporary build and the verbosity's directive
BuilderForSink(lg) ==
    LET b == BuilderAfterBuild(lg.builder)
        offset == Offset(FilterFilter(TemporaryFilter(lg)))
    IN  IF IsSome(lg.verbosity)
        THEN BuilderFilter(b, None,
                 ToLevelFilter(VerbosityLevel(WrappingAdd(Unwrap(lg.verbosity), offset))))
        ELSE b

\* the filter of the InnerLogger: the builder built a second time
SinkFilter(lg) == BuiltFilter(BuilderForSink(lg))

\* v + offset overflows u64: a panic where overflow checks are compiled in
InitOverflows(lg) ==
    /\ IsSome(lg.verbosity)
    /\ AddOverflows(Unwrap(lg.verbosity), Offset(FilterFilter(TemporaryFilter(lg))))

\* the InnerLogger that init builds: its filter and the Logger its closures
\* captured.  entry, explicit and id are history: the Logger as init was
\* entered, the last max_level argument, and the number of the init call.
InnerLogger(lg, expl, n) ==
    [filter |-> SinkFilter(lg),
     logger |-> [lg EXCEPT !.separator = InitSeparator(lg)],
     entry |-> lg,
     explicit |-> expl,
     id |-> n]

\* log::set_boxed_logger: the logger is stored if none is, else an error
SetBoxedLogger(cur, new) == IF IsSome(cur) THEN cur ELSE Some(new)
SetBoxedLoggerResult(cur) == IF IsSome(cur) THEN "Err" ELSE "Ok"

\* the effect of init on the process, lg being the Logger it consumes
InitEffect(lg, expl) ==
    \/ /\ InitOverflows(lg)
       \* overflow checks on: the addition panics before any global state
       \* is touched
       /\ crashed' = TRUE
       /\ results' = Append(results, "Panic")
       /\ UNCHANGED <<installed, maxLevel>>
    \/ /\ maxLevel' = FilterFilter(SinkFilter(lg))
       /\ installed' = SetBoxedLogger(installed, InnerLogger(lg, expl, Len(results) + 1))
       /\ results' = Append(results, SetBoxedLoggerResult(installed))
       /\ UNCHANGED crashed

InitLogger ==
    /\ Building
    /\ InitEffect(Unwrap(logger), explicit)
    /\ logger' = None
    /\ explicit' = None
    /\ lastLog' = None
    /\ UNCHANGED <<env, calls, threads>>

(***************************************************************************)
(* examples/filters.rs: main builds a Logger from the command line and     *)
(* initialises it, first thing in the process.                             *)
(***************************************************************************)
\* the values of -f/--filter and the counts of -v
CliFilters == {None, Some(Spec_a_ab)}
CliVerbosities == {Small(0), Small(1)}

ExampleLogger(f, v, lvl, dbg, noModulePath, noColor, tty) ==
    Logger_colors(
        Logger_module_path(
            Logger_line_numbers(
                Logger_level(
                    Logger_verbosity(
                        IF IsSome(f) THEN Logger_filter(Logger_new(env, tty), Unwrap(f))
                        ELSE Logger_new(env, tty),
                        v),
                    lvl),
                dbg),
            ~noModulePath),
        ~noColor, tty)

ExampleMain ==
    /\ ~crashed
    /\ logger = None
    /\ results = <<>>
    /\ calls = 0
    /\ \E f \in CliFilters, v \in CliVerbosities, lvl \in BOOLEAN, dbg \in BOOLEAN,
          noModulePath \in BOOLEAN, noColor \in BOOLEAN, tty \in BOOLEAN :
        /\ InitEffect(ExampleLogger(f, v, lvl, dbg, noModulePath, noColor, tty), None)
        /\ calls' = calls + (IF IsSome(f) THEN 6 ELSE 5)
    /\ lastLog' = None
    /\ UNCHANGED <<env, logger, explicit, threads>>

(***************************************************************************)
(* The sink: InnerLogger::log and the two closures init gives it.          *)
(***************************************************************************)
\* the escape character that starts an ANSI control sequence
ESC == "ESC"

\* ansi_term: Colour::Fixed(n).paint(text).to_string()
Paint(color, text) ==
    <<ESC, "[", "3", "8", ";", "5", ";">> \o Decimal(color) \o <<"m">>
        \o text \o <<ESC, "[", "0", "m">>

Path_unknown == <<"u", "n", "k", "n", "o", "w", "n">>

LevelText(lg, rec) == IF lg.include_level THEN LevelName(rec.level) ELSE <<>>

\* a variant of ModulePathText: the path is never put in brackets
ModulePathTextBare(lg, rec) ==
    IF lg.include_module_path
    THEN IF IsSome(rec.module_path) THEN Unwrap(rec.module_path) ELSE Path_unknown
    ELSE <<>>

ModulePathText(lg, rec) ==
    IF lg.include_module_path
    THEN LET path == IF IsSome(rec.module_path) THEN Unwrap(rec.module_path)
                     ELSE Path_unknown
         IN  IF lg.include_level THEN <<" ", "[">> \o path \o <<"]">> ELSE path
    ELSE <<>>

LineText(lg, rec) ==
    IF lg.include_line_numbers /\ IsSome(rec.line)
    THEN <<" ", "(", "l", "i", "n", "e", " ">> \o Decimal(Unwrap(rec.line)) \o <<")">>
    ELSE <<>>

\* the tag before it is coloured
PlainTag(lg, rec) == LevelText(lg, rec) \o ModulePathText(lg, rec) \o LineText(lg, rec)

\* a variant of Tag: the tag is coloured whatever colors says
TagAlwaysPainted(lg, rec) == Paint(lg.level[rec.level].color, PlainTag(lg, rec))

\* the tag as written
Tag(lg, rec) ==
    IF lg.colors THEN Paint(lg.level[rec.level].color, PlainTag(lg, rec))
    ELSE PlainTag(lg, rec)

\* the write closure: what writeln! puts on the stream; lg is the Logger the
\* closure captured
WriteLine(lg, rec) == Tag(lg, rec) \o lg.separator \o rec.args \o <<"\n">>

\* a variant of SelectOutput: every level goes to stdout
SelectOutputStdout(lg, l) == Stdout

\* the select_output closure
SelectOutput(lg, l) == lg.level[l].output

\* the log! macro's test before it calls the logger
GateOpen(l) == l <= maxLevel

\* a variant of SinkMatches: the record is written without asking the filter
SinkMatchesAlways(sink, rec) == TRUE

\* the filter test of InnerLogger::log
SinkMatches(sink, rec) == FilterMatches(sink.filter, rec)

\* what one call of the facade did: reached, InnerLogger::log was called;
\* passed, its filter matched; writes, what was put on which stream;
\* failed, the stream refused the write
Outcome(rec, viaMacro, reached, passed, writes, failed) ==
    [rec |-> rec, viaMacro |-> viaMacro, reached |-> reached, passed |-> passed,
     writes |-> writes, failed |-> failed]

\* One record logged: through a log! macro (viaMacro), which tests the
\* maximum level first, or handed straight to log::logger().log().  With no
\* logger installed the call ends in log's no-op logger.  accepts: the
\* stream takes the write; if it does not, expect() panics.
\* The calling thread logs between its builder chains.  A call leaves the
\* loggers alone, so the state after two calls in a row is the state after
\* the second: lastLog holds one call.
Log ==
    /\ ~crashed
    /\ logger = None
    /\ lastLog = None
    /\ \E rec \in Records, viaMacro \in BOOLEAN, accepts \in BOOLEAN :
        LET reached == IsSome(installed) /\ (viaMacro => GateOpen(rec.level))
            sink == Unwrap(installed)
            passed == reached /\ SinkMatches(sink, rec)
        IN  IF ~passed
            THEN /\ accepts
                 /\ lastLog' = Some(Outcome(rec, viaMacro, reached, FALSE, <<>>, FALSE))
                 /\ UNCHANGED crashed
            ELSE IF accepts
            THEN /\ lastLog' = Some(Outcome(rec, viaMacro, TRUE, TRUE,
                        <<[stream |-> SelectOutput(sink.logger, rec.level),
                           text |-> WriteLine(sink.logger, rec)]>>, FALSE))
                 /\ UNCHANGED crashed
            ELSE /\ lastLog' = Some(Outcome(rec, viaMacro, TRUE, TRUE, <<>>, TRUE))
                 /\ crashed' = TRUE
    /\ UNCHANGED <<env, logger, explicit, calls, results, installed, maxLevel, threads>>

Next ==
    \/ New
    \/ Color
    \/ Separator
    \/ Colors
    \/ NoColors
    \/ LineNumbers
    \/ IncludeLevel
    \/ ExplicitMaxLevel
    \/ ModulePath
    \/ NoModulePath
    \/ Output
    \/ Verbosity
    \/ Filter
    \/ InitLogger
    \/ ExampleMain
    \/ Log

Spec == Init /\ [][Next]_vars

(***************************************************************************)
(* The builder alone: Logger::new and chains of setter calls on the Logger *)
(* it returns, each call named with its arguments.                         *)
(***************************************************************************)
CanChain == IsSome(logger) /\ calls < MaxChain
\* a setter call of the chain returns lg
Chain(lg) ==
    /\ logger' = Some(lg)
    /\ calls' = calls + 1
    /\ UNCHANGED <<env, explicit, results, installed, maxLevel, lastLog, crashed, threads>>

CallNew(tty) ==
    /\ logger = None
    /\ logger' = Some(Logger_new(env, tty))
    /\ UNCHANGED <<env, explicit, calls, results, installed, maxLevel, lastLog, crashed,
                   threads>>
CallColor(l, c) == CanChain /\ Chain(Logger_color(Unwrap(logger), l, c))
CallSeparator(s) == CanChain /\ Chain(Logger_separator(Unwrap(logger), s))
CallColors(c, tty) == CanChain /\ Chain(Logger_colors(Unwrap(logger), c, tty))
CallNoColors == CanChain /\ Chain(Logger_no_colors(Unwrap(logger)))
CallLineNumbers(i) == CanChain /\ Chain(Logger_line_numbers(Unwrap(logger), i))
CallLevel(i) == CanChain /\ Chain(Logger_level(Unwrap(logger), i))
CallMaxLevel(l) == CanChain /\ Chain(Logger_max_level(Unwrap(logger), l))
CallModulePath(i) == CanChain /\ Chain(Logger_module_path(Unwrap(logger), i))
CallNoModulePath == CanChain /\ Chain(Logger_no_module_path(Unwrap(logger)))
CallOutput(l, o) == CanChain /\ Chain(Logger_output(Unwrap(logger), l, o))
CallVerbosity(v) == CanChain /\ Chain(Logger_verbosity(Unwrap(logger), v))
CallFilter(d) == CanChain /\ Chain(Logger_filter(Unwrap(logger), d))

NextSetters ==
    \/ \E tty \in BOOLEAN : CallNew(tty)
    \/ \E l \in Levels, c \in Colours : CallColor(l, c)
    \/ \E s \in Separators : CallSeparator(s)
    \/ \E c \in BOOLEAN, tty \in BOOLEAN : CallColors(c, tty)
    \/ CallNoColors
    \/ \E i \in BOOLEAN : CallLineNumbers(i)
    \/ \E i \in BOOLEAN : CallLevel(i)
    \/ \E l \in Levels : CallMaxLevel(l)
    \/ \E i \in BOOLEAN : CallModulePath(i)
    \/ CallNoModulePath
    \/ \E l \in Levels, o \in Outputs : CallOutput(l, o)
    \/ \E v \in Verbosities : CallVerbosity(v)
    \/ \E d \in FilterSpecs : CallFilter(d)

SpecSetters == Init /\ [][NextSetters]_vars

(***************************************************************************)
(* Threads that each build a Logger and call Logger::init, side by side.   *)
(* init reads and writes the process's state in two places, one after the  *)
(* other: log::set_max_level, an atomic store, and log::set_boxed_logger,  *)
(* which takes the one slot of the global logger with an atomic            *)
(* compare-and-swap.  All that init does before is local to its thread.    *)
(***************************************************************************)
Threads == 1..NumThreads
\* the verbosity a thread gives its Logger, if any
ThreadVerbosities == {None} \cup {Some(v) : v \in Verbosities}
\* the Logger of a thread: Logger::new(), and verbosity(v) if it calls it
ThreadLogger(v) ==
    IF IsSome(v) THEN Logger_verbosity(Logger_new(env, FALSE), Unwrap(v))
    ELSE Logger_new(env, FALSE)
\* a thread at pc, holding lg, its call of init having ended with result
Thread(pc, lg, result) == [pc |-> pc, lg |-> lg, result |-> result]

InitThreads ==
    /\ env \in EnvValues
    /\ logger = None
    /\ explicit = None
    /\ calls = 0
    /\ results = <<>>
    /\ installed = None
    /\ maxLevel = Off
    /\ lastLog = None
    /\ crashed = FALSE
    /\ threads = [t \in Threads |-> Thread("new", None, "")]

\* the builder chain of thread t
ThreadBuild(t) ==
    /\ threads[t].pc = "new"
    /\ \E v \in ThreadVerbosities :
        threads' = [threads EXCEPT ![t] = Thread("init", Some(ThreadLogger(v)), "")]
    /\ UNCHANGED <<env, logger, explicit, calls, results, installed, maxLevel, lastLog,
                   crashed>>

\* init of thread t up to log::set_max_level; where v + offset overflows and
\* overflow checks are compiled in, the thread panics before it
ThreadSetMaxLevel(t) ==
    /\ threads[t].pc = "init"
    /\ LET lg == Unwrap(threads[t].lg)
       IN  \/ /\ InitOverflows(lg)
              /\ threads' = [threads EXCEPT ![t] = Thread("done", @.lg, "Panic")]
              /\ UNCHANGED maxLevel
           \/ /\ maxLevel' = FilterFilter(SinkFilter(lg))
              /\ threads' = [threads EXCEPT ![t] = Thread("register", @.lg, "")]
    /\ UNCHANGED <<env, logger, explicit, calls, results, installed, lastLog, crashed>>

\* log::set_boxed_logger of thread t, and the return of its init
ThreadSetBoxedLogger(t) ==
    /\ threads[t].pc = "register"
    /\ installed' = SetBoxedLogger(installed, InnerLogger(Unwrap(threads[t].lg), None, t))
    /\ threads' = [threads EXCEPT
                      ![t] = Thread("done", @.lg, SetBoxedLoggerResult(installed))]
    /\ UNCHANGED <<env, logger, explicit, calls, results, maxLevel, lastLog, crashed>>

NextThreads ==
    \E t \in Threads :
        \/ ThreadBuild(t)
        \/ ThreadSetMaxLevel(t)
        \/ ThreadSetBoxedLogger(t)

SpecThreads == InitThreads /\ [][NextThreads]_vars

(***************************************************************************)
(* Properties.                                                             *)
(***************************************************************************)
Sink == Unwrap(installed)
Last == Unwrap(lastLog)
\* the step just taken wrote a line
Wrote == IsSome(lastLog) /\ Len(Last.writes) = 1
Chars(s) == {s[i] : i \in 1..Len(s)}

\* The threshold the specification's effective_threshold gives a target:
\* the level of the directive with the longest name that is a prefix of the
\* target, the last registered of them if several have it; Off (nothing
\* passes) if there is none.  An unnamed directive is the default: a name of
\* length 0.
IsPrefixOf(d, target) ==
    IsSome(d.name) =>
        /\ Len(Unwrap(d.name)) <= Len(target)
        /\ \A i \in 1..Len(Unwrap(d.name)) : Unwrap(d.name)[i] = target[i]
ClaimedThreshold(ds, target) ==
    LET matching == {i \in 1..Len(ds) : IsPrefixOf(ds[i], target)}
        longest == {i \in matching : \A j \in matching : NameLen(ds[j]) <= NameLen(ds[i])}
    IN  IF matching = {} THEN Off
        ELSE ds[CHOOSE i \in longest : \A j \in longest : j <= i].level

\* a target no directive of the inputs names
Path_q == <<"q">>
\* the threshold of the modules that match no named directive
DefaultThreshold(f) == EffectiveThreshold(f, Path_q)
\* the named directives among ds, in their order
NamedDirectives(ds) == SelectSeq(ds, LAMBDA d : IsSome(d.name))

\* C1: of the calls of init made one after the other in a process, the
\* first returns Ok and installs its sink, every later one returns the
\* error, and the installed sink stays the first's.
C1_FirstOkLaterErr ==
    /\ \A i \in 1..Len(results) : results[i] = IF i = 1 THEN "Ok" ELSE "Err"
    /\ Len(results) >= 1 => IsSome(installed) /\ Sink.id = 1

\* C2: a builder on which max_level(l) was called resolves the global
\* threshold to l, wherever verbosity was called.
C2_ExplicitWins ==
    IsSome(installed) /\ IsSome(Sink.explicit)
        => DefaultThreshold(Sink.filter) = ToLevelFilter(Unwrap(Sink.explicit))

\* the offset and the rank that C3 states
ClaimedOffset(lg) ==
    IF lg.builder.directives = <<>> \/ FilterFilter(TemporaryFilter(lg)) = Off THEN 1
    ELSE Rank(FilterFilter(TemporaryFilter(lg)))
ClaimedRank(v, offset) == IF v.top \/ v.n + offset >= 4 THEN 4 ELSE v.n + offset

\* C3: with a verbosity v and no explicit level, the global threshold has
\* rank min(4, v + offset): offset 1 for a baseline that is off or not set,
\* the baseline's rank otherwise.
C3_VerbosityRank ==
    IsSome(installed) /\ IsSome(Sink.entry.verbosity) /\ ~IsSome(Sink.explicit)
        => Rank(DefaultThreshold(Sink.filter))
             = ClaimedRank(Unwrap(Sink.entry.verbosity), ClaimedOffset(Sink.entry))

\* C4: the sink of Logger::new().init(), with RUST_LOG not set, writes the
\* records of level Error and Warn and drops those of Info, Debug and Trace.
C4_DefaultLevelWarn ==
    /\ IsSome(installed) /\ IsSome(lastLog)
    /\ Sink.entry.builder = BuilderNew
    /\ ~IsSome(Sink.entry.verbosity)
    => ((Len(Last.writes) = 1 \/ Last.failed) <=> Last.rec.level <= Warn)

\* C5: the sink writes a record it is handed if and only if the record's
\* rank is at most the rank of the effective threshold of its target;
\* a record it drops is written nowhere and fails nothing.
C5_FilterDecision ==
    IsSome(lastLog) /\ Last.reached =>
        LET threshold == ClaimedThreshold(Sink.filter.directives, Last.rec.target)
        IN  /\ Last.passed <=> Rank(Last.rec.level) <= Rank(threshold)
            /\ ~Last.passed => Last.writes = <<>> /\ ~Last.failed
            /\ Last.passed => Len(Last.writes) = 1 \/ Last.failed
\* a record, more verbose than the threshold, handed to the sink and dropped
C5_Witness ==
    /\ IsSome(lastLog) /\ Last.reached /\ ~Last.passed
    /\ Last.rec.level > ClaimedThreshold(Sink.filter.directives, Last.rec.target)
    /\ Last.writes = <<>>

\* C6: for every module path that a directive given to the builder (by
\* filter or the environment) names, the installed sink's threshold is that
\* directive's level.
C6_DirectivesKept ==
    IsSome(installed) =>
        LET named == NamedDirectives(Sink.entry.builder.directives)
        IN  \A t \in Targets :
                (\E i \in 1..Len(named) : IsPrefixOf(named[i], t))
                    => EffectiveThreshold(Sink.filter, t) = ClaimedThreshold(named, t)

\* C7: the sink resolves every module path to the level of the directive
\* with the longest matching prefix, and to the default if none matches;
\* with a=warn and a::b=trace given, a::b::c resolves to Trace, a::x to
\* Warn and z to the default.
C7_LongestPrefix ==
    IsSome(installed) =>
        LET given == Sink.entry.builder.directives
            named == NamedDirectives(given)
            resolved(t) == EffectiveThreshold(Sink.filter, t)
        IN  /\ \A t \in Targets :
                resolved(t) = IF \E i \in 1..Len(named) : IsPrefixOf(named[i], t)
                              THEN ClaimedThreshold(named, t)
                              ELSE DefaultThreshold(Sink.filter)
            /\ named = <<Directive(Some(Path_a), Warn), Directive(Some(Path_ab), Trace)>>
                => /\ resolved(Path_abc) = Trace
                   /\ resolved(Path_ax) = Warn
                   /\ resolved(Path_z) = DefaultThreshold(Sink.filter)

\* the tag that C8 states
ClaimedTag(lg, rec) ==
    LET path == IF IsSome(rec.module_path) THEN Unwrap(rec.module_path) ELSE Path_unknown
    IN  Concat(<<
            IF lg.include_level THEN LevelName(rec.level) ELSE <<>>,
            IF ~lg.include_module_path THEN <<>>
            ELSE IF lg.include_level THEN <<" ", "[">> \o path \o <<"]">>
            ELSE path,
            IF lg.include_line_numbers /\ IsSome(rec.line)
            THEN <<" ", "(", "l", "i", "n", "e", " ">> \o Decimal(Unwrap(rec.line)) \o <<")">>
            ELSE <<>> >>)

\* C8: the line written is the tag (coloured if colors is set), the
\* separator, the message and a line end; the tag is the level text if
\* include_level, then the module path if include_module_path (as " [path]"
\* beside the level text, bare otherwise; "unknown" stands for a path the
\* record lacks), then " (line N)" if include_line_numbers and the record
\* has a line.
C8_RenderedLine ==
    Wrote =>
        LET lg == Sink.logger
            rec == Last.rec
            tag == ClaimedTag(lg, rec)
        IN  Last.writes[1].text =
                (IF lg.colors THEN Paint(lg.level[rec.level].color, tag) ELSE tag)
                    \o lg.separator \o rec.args \o <<"\n">>
\* "ERROR [a::b::c] (line 12): hi" was written
C8_Witness ==
    /\ Wrote
    /\ Sink.logger.include_level /\ Sink.logger.include_module_path
    /\ Sink.logger.include_line_numbers
    /\ Last.writes[1].text =
        <<"E", "R", "R", "O", "R", " ", "[", "a", ":", ":", "b", ":", ":", "c", "]",
          " ", "(", "l", "i", "n", "e", " ", "1", "2", ")", ":", " ", "h", "i", "\n">>

\* level, line numbers and module path are all off in lg
TagAlwaysEmpty(lg) ==
    ~lg.include_level /\ ~lg.include_line_numbers /\ ~lg.include_module_path

C10_ColorSuppression ==
    Wrote =>
        LET lg == Sink.logger
            rec == Last.rec
            text == Last.writes[1].text
            painted == Paint(lg.level[rec.level].color, PlainTag(lg, rec))
            rest == lg.separator \o rec.args \o <<"\n">>
        IN  /\ ESC \notin Chars(rest)
            /\ ~lg.colors => ESC \notin Chars(text)
            /\ lg.colors => text = painted \o rest
\* a line written without colour by a sink with a colour of its own for the
\* record's level
C10_Witness ==
    /\ Wrote
    /\ ~Sink.logger.colors
    /\ Sink.logger.level[Last.rec.level].color = 13
    /\ ESC \notin Chars(Last.writes[1].text)

\* the stream C11 states for a level when output was not called for it
ClaimedDefaultOutput(l) == IF l \in {Error, Warn} THEN Stderr ELSE Stdout
\* the levels that lg1 and lg2 route to different streams
Rerouted(lg1, lg2) == {l \in Levels : lg1.level[l].output # lg2.level[l].output}

\* C11: a record that passes the filter, the stream taking the write, is
\* written once, to the stream configured for its level at init.  A new
\* Logger routes Error and Warn to stderr, Info, Debug and Trace to stdout;
\* output(l, o) routes l to o and leaves the other four levels where they
\* were; no other setter changes the routing.
C11_Routing ==
    [][/\ IsSome(lastLog') /\ Last'.passed /\ ~Last'.failed =>
            /\ Len(Last'.writes) = 1
            /\ Last'.writes[1].stream = Sink.entry.level[Last'.rec.level].output
       /\ logger = None /\ IsSome(logger') =>
            \A l \in Levels : Unwrap(logger').level[l].output = ClaimedDefaultOutput(l)
       /\ logger = None /\ installed = None /\ IsSome(installed') =>
            \A l \in Levels : Sink'.entry.level[l].output = ClaimedDefaultOutput(l)
       /\ IsSome(logger) /\ IsSome(logger') =>
            IF Output
            THEN \E l \in Levels, o \in Outputs :
                    /\ Unwrap(logger').level[l].output = o
                    /\ Rerouted(Unwrap(logger), Unwrap(logger')) \subseteq {l}
            ELSE Rerouted(Unwrap(logger), Unwrap(logger')) = {}
      ]_vars
\* an Error record written to stdout by a sink that output(Error, Stdout)
\* made, its Warn records still going to stderr
C11_Witness ==
    /\ Wrote
    /\ Last.rec.level = Error
    /\ Sink.entry.level[Error].output = Stdout
    /\ Sink.entry.level[Warn].output = Stderr
    /\ Last.writes[1].stream = Stdout

\* C12: a write that the stream refuses ends with that log call: the
\* process goes on and the sink stays installed.
C12_WriteFailureConfined ==
    IsSome(lastLog) /\ Last.failed => ~crashed /\ IsSome(installed)

\* the Logger before and after the step
Before == Unwrap(logger)
After == Unwrap(logger')
\* the Logger after the step differs from the one before in no field but
\* those of fields
OnlyChanged(fields) ==
    \A f \in (DOMAIN Before) \ fields : After[f] = Before[f]
\* of the streams and colours of the levels, only what is kept for l in
\* field (output or color) changed in the step
OnlyChangedLevel(l, field) ==
    /\ OnlyChanged({"level"})
    /\ \A m \in Levels, f \in {"output", "color"} :
        (m # l \/ f # field) => After.level[m][f] = Before.level[m][f]

LevelOfRank(r) == r + 1
\* the most verbose level among the directives ds
MostVerbose(ds) == CHOOSE l \in LevelFilters :
    /\ \E i \in 1..Len(ds) : ds[i].level = l
    /\ \A i \in 1..Len(ds) : ds[i].level <= l
\* the global threshold that the specification resolves for the Logger lg
\* that init consumed, expl its explicit level: the explicit level, else the
\* level of the verbosity, else the baseline (stated for a baseline that is
\* set: the most verbose level of the directives of the environment and of
\* filter)
HasBaseline(lg) == lg.builder.directives # <<>>
ClaimedResolved(lg, expl) ==
    IF IsSome(expl) THEN ToLevelFilter(Unwrap(expl))
    ELSE IF IsSome(lg.verbosity)
    THEN LevelOfRank(ClaimedRank(Unwrap(lg.verbosity), ClaimedOffset(lg)))
    ELSE MostVerbose(lg.builder.directives)

\* C14: after the one successful init of a process, log's maximum level is
\* the resolved global threshold.
C14_GateIsResolved ==
    results = <<"Ok">> /\ HasBaseline(Sink.entry)
        => maxLevel = ClaimedResolved(Sink.entry, Sink.explicit)

\* C15: with neither verbosity nor max_level called, the installed sink's
\* threshold for the modules that match no directive is the baseline.
C15_BaselineKept ==
    /\ IsSome(installed)
    /\ ~IsSome(Sink.entry.verbosity) /\ ~IsSome(Sink.explicit)
    /\ HasBaseline(Sink.entry)
    => DefaultThreshold(Sink.filter) = MostVerbose(Sink.entry.builder.directives)

\* the threads whose call of init has ended
Ended == {t \in DOMAIN threads : threads[t].pc = "done"}

\* C16: of the calls of init that threads make side by side, one returns
\* Ok, and the installed sink is its own; every other returns the error.
C16_OneThreadSucceeds ==
    /\ \A t \in Ended : threads[t].result \in {"Ok", "Err"}
    /\ Ended # {} => Cardinality({t \in Ended : threads[t].result = "Ok"}) = 1
    /\ IsSome(installed) /\ DOMAIN threads # {} => threads[Sink.id].result = "Ok"

\* C17: init never fails on v + offset, and a sink whose builder had a
\* verbosity v with v + offset >= 4 has the global threshold Trace; offset
\* is the one init computed.
C17_SumClamped ==
    /\ \A i \in 1..Len(results) : results[i] # "Panic"
    /\ IsSome(installed) /\ IsSome(Sink.entry.verbosity) =>
        LET v == Unwrap(Sink.entry.verbosity)
            offset == Offset(FilterFilter(TemporaryFilter(Sink.entry)))
        IN  v.top \/ v.n + offset >= 4 => DefaultThreshold(Sink.filter) = Trace

\* C18: a call of init that returns the error leaves the installed sink and
\* log's maximum level as they were.
C18_FailedInitChangesNothing ==
    [][Len(results') = Len(results) + 1 /\ results'[Len(results')] = "Err"
            => installed' = installed /\ maxLevel' = maxLevel]_vars

\* C19: once a sink is installed, log's maximum level is at least as verbose
\* as the sink's threshold for every module path.
C19_GateCoversSink ==
    IsSome(installed) =>
        \A t \in Targets \cup {Path_q} : EffectiveThreshold(Sink.filter, t) <= maxLevel

====
